---- MODULE Spec2Model ----
(***************************************************************************)
(* Model of the two scripts of dockerized-ChromaDB:                        *)
(*   app/client.py    ChromaDBClient (connection-and-retry wrapper), its   *)
(*                    demonstration driver main()                          *)
(*   local_client.py  the command-line script                              *)
(* The remote service is the environment: every remote call succeeds or    *)
(* fails nondeterministically.  One run of the model is one run of one of  *)
(* three programs (prog): "api", an arbitrary caller of ChromaDBClient;    *)
(* "main", app/client.py main(); "cli", local_client.py main().            *)
(***************************************************************************)
EXTENDS Integers, Sequences, FiniteSets, TLC

VARIABLES
    prog,         \* which program runs: "api", "main" or "cli"
    max_retries,  \* self.max_retries
    client,       \* self.client: "None", or a handle that is "Unverified"
                  \* (no heartbeat passed since HttpClient(...) made it) or "Verified"
    op,           \* ChromaDBClient method the caller is in: init, goc, add, query, idle
    pc,           \* position in the code
    cattempts,    \* local `attempts` of _connect
    gattempts,    \* local `attempts` of get_or_create_collection
    conn_from,    \* caller of the running _connect: "init" or "goc"
    collection,   \* local `collection` of add_documents / query_collection
    args,         \* arguments of the running method
    ret,          \* how the last method called by the caller ended
    gret,         \* how the last get_or_create_collection ended
    cret,         \* how the last _connect ended
    log,          \* events of the running method (remote calls, sleeps), in order
    clog,         \* events of the running _connect, in order
    heartbeats,   \* number of client.heartbeat() calls of the running method
    sent,         \* arguments of the last collection.add / collection.query issued
    step,         \* app/client.py main(): index of the next statement
    trace,        \* app/client.py main(): outcome of each statement run so far
    exit_status,  \* process exit status of the script, "running" before it ends
    cli           \* local_client.py main(): its locals

vars == <<prog, max_retries, client, op, pc, cattempts, gattempts, conn_from,
          collection, args, ret, gret, cret, log, clog, heartbeats, sent, step,
          trace, exit_status, cli>>

----------------------------------------------------------------------------
(* Bounds of the model *)

MaxRetries == 4      \* max_retries of an "api" client ranges over 0..MaxRetries
MaxDocs == 2         \* documents / ids lists have at most MaxDocs elements
MaxQueries == 2      \* a query_texts list has at most MaxQueries elements
MaxColls == 2        \* list_collections returns at most MaxColls collections
MaxCount == 1        \* collection.count() returns 0..MaxCount

(* Program constants *)

DefaultMaxRetries == 5      \* ChromaDBClient.__init__(max_retries=5)
NumSampleDocs == 15         \* load_sample_data: len(documents)

----------------------------------------------------------------------------
(* Values *)

RECURSIVE SeqsUpTo(_, _)
SeqsUpTo(S, n) ==
    IF n = 0 THEN {<< >>}
    ELSE LET shorter == SeqsUpTo(S, n - 1)
         IN  shorter \cup {Append(s, x) : s \in {t \in shorter : Len(t) = n - 1}, x \in S}

RECURSIVE Count(_, _)
Count(s, S) ==
    IF s = << >> THEN 0
    ELSE (IF Head(s) \in S THEN 1 ELSE 0) + Count(Tail(s), S)

Distinct(s) == \A i, j \in 1..Len(s) : i # j => s[i] # s[j]

Texts == {1, 2}                  \* query strings
IdTokens == {1, 2}               \* ids a caller supplies
Names == {"sample_collection", "other"}

\* a Python value that is either a str or a list of str
Str(s) == [t |-> "str", s |-> s, l |-> << >>]
List(l) == [t |-> "list", s |-> 0, l |-> l]
\* Optional[List[str]]
NoneIds == [none |-> TRUE, l |-> << >>]
SomeIds(l) == [none |-> FALSE, l |-> l]

NoArgs == [documents |-> << >>, ids |-> NoneIds, query_texts |-> List(<< >>)]
NoSent == [kind |-> "none", documents |-> << >>, ids |-> NoneIds,
           query_texts |-> List(<< >>)]
Pending(o) == [op |-> o, kind |-> "pending", val |-> "None"]
NoRet == [kind |-> "pending", val |-> "None"]
NoCli == [collection |-> "sample_collection", query |-> 1, collections |-> << >>,
          collection_name |-> "none", info |-> "unset", count |-> 0]

----------------------------------------------------------------------------
(* Conditions and pure expressions of app/client.py *)

\* _connect, line 42: while attempts < self.max_retries
ConnectMayTry(attempts) == attempts < max_retries

\* _connect, line 56: if attempts >= self.max_retries (then raise ConnectionError)
ConnectExhaustedEarly(attempts) == attempts >= max_retries - 1
ConnectExhausted(attempts) == attempts >= max_retries

\* get_or_create_collection, line 64: while attempts < self.max_retries
GocMayTry(attempts) == attempts < max_retries

\* get_or_create_collection, line 72: if attempts >= self.max_retries (then raise)
GocExhausted(attempts) == attempts >= max_retries

\* get_or_create_collection, line 77: if attempts % 2 == 0 (then self._connect())
ShouldReconnectAlways(attempts) == TRUE
ShouldReconnectOdd(attempts) == attempts % 2 = 1
ShouldReconnect(attempts) == attempts % 2 = 0

\* uuid.uuid4(): a value that no earlier call of this list comprehension returned
UuidPool == 101..(101 + MaxDocs)
Uuid4(drawn) == UuidPool \ drawn

\* add_documents, line 95: [str(uuid.uuid4()) for _ in range(len(documents))],
\* the set of lists the comprehension can produce
RECURSIVE GenerateFrom(_, _)
GenerateFrom(n, acc) ==
    IF Len(acc) = n THEN {acc}
    ELSE UNION {GenerateFrom(n, Append(acc, u)) :
                    u \in Uuid4({acc[i] : i \in 1..Len(acc)})}

GenerateIdsOnce(n) == {[i \in 1..n |-> u] : u \in Uuid4({})}
GenerateIds(n) == GenerateFrom(n, << >>)

\* add_documents, lines 93-95: the ids passed on to collection.add
AddIds(ids, documents) ==
    IF ids.none THEN GenerateIds(Len(documents)) ELSE {ids.l}

\* query_collection, lines 120-121: a str is wrapped into a one-element list
NormalizeQueryAsGiven(query_texts) == query_texts
NormalizeQuery(query_texts) ==
    IF query_texts.t = "str" THEN List(<<query_texts.s>>) ELSE query_texts

\* main, lines 235-237: an exception of any statement is logged and raised again
MainSwallows(kind) == FALSE
MainAborts(kind) == kind = "raise"

\* the handle HttpClient(...) returns, before and after its heartbeat() passed
CollectionOf(c) == IF c = "Verified" THEN "CollV" ELSE "CollU"

----------------------------------------------------------------------------
(* How a method, get_or_create_collection and _connect end *)

\* main, lines 189-237: a statement of the try block returned or raised
MainStatement(kind) ==
    /\ trace' = Append(trace, [step |-> step, ok |-> kind = "return"])
    /\ IF MainAborts(kind)
       THEN /\ pc' = "exited"
            /\ exit_status' = "1"
            /\ step' = step
       ELSE /\ pc' = "idle"
            /\ exit_status' = exit_status
            /\ step' = step + 1

\* the method the caller called returns (kind = "return") or raises
Finish(kind, val) ==
    /\ ret' = [op |-> op, kind |-> kind, val |-> val]
    /\ op' = "idle"
    /\ IF prog = "main"
       THEN MainStatement(kind)
       ELSE /\ pc' = IF op = "init" /\ kind = "raise" THEN "exited" ELSE "idle"
            /\ UNCHANGED <<trace, exit_status, step>>

\* get_or_create_collection returns val or raises val
GocFinish(kind, val) ==
    /\ gret' = [kind |-> kind, val |-> val]
    /\ IF op = "goc" \/ kind = "raise"
       THEN /\ Finish(kind, val)
            /\ UNCHANGED collection
       ELSE /\ collection' = val
            /\ pc' = IF op = "add" THEN "add_body" ELSE "query_body"
            /\ UNCHANGED <<op, ret, step, trace, exit_status>>

\* _connect returns or raises ConnectionError
ConnFinish(kind) ==
    /\ cret' = kind
    /\ IF conn_from = "init"
       THEN /\ Finish(kind, IF kind = "raise" THEN "ConnectionError" ELSE "None")
            /\ UNCHANGED <<gret, collection>>
       ELSE IF kind = "raise"
            THEN GocFinish("raise", "ConnectionError")
            ELSE /\ pc' = "goc"
                 /\ UNCHANGED <<op, ret, gret, collection, step, trace,
                                exit_status>>

----------------------------------------------------------------------------
(* ChromaDBClient._connect, lines 39-59 *)

\* lines 45-50: HttpClient(...) raises ("ctor_fail"), or heartbeat() raises
\* ("hb_fail"), or both return ("hb_ok"); the except block sees either failure
ConnectEvent(outcome) == IF outcome = "hb_ok" THEN "hb_ok" ELSE "conn_fail"

\* one iteration of the loop up to the sleep: lines 42-58
ConnectAttempt ==
    /\ pc = "connect"
    /\ IF ConnectMayTry(cattempts)
       THEN \E outcome \in {"ctor_fail", "hb_fail", "hb_ok"} :
              /\ log' = Append(log, ConnectEvent(outcome))
              /\ clog' = Append(clog, ConnectEvent(outcome))
              /\ heartbeats' = IF outcome = "ctor_fail" THEN heartbeats
                               ELSE heartbeats + 1
              /\ client' = CASE outcome = "ctor_fail" -> client
                             [] outcome = "hb_fail" -> "Unverified"
                             [] outcome = "hb_ok" -> "Verified"
              /\ IF outcome = "hb_ok"
                 THEN /\ ConnFinish("return")
                      /\ UNCHANGED cattempts
                 ELSE /\ cattempts' = cattempts + 1
                      /\ IF ConnectExhausted(cattempts + 1)
                         THEN ConnFinish("raise")
                         ELSE /\ pc' = "connect_sleep"
                              /\ UNCHANGED <<op, ret, gret, cret, collection,
                                             step, trace, exit_status>>
       ELSE /\ ConnFinish("return")
            /\ UNCHANGED <<log, clog, heartbeats, client, cattempts>>
    /\ UNCHANGED <<prog, max_retries, gattempts, conn_from, args, sent, cli>>

\* line 59: time.sleep(self.retry_delay)
ConnectSleep ==
    /\ pc = "connect_sleep"
    /\ log' = Append(log, "sleep")
    /\ clog' = Append(clog, "sleep")
    /\ pc' = "connect"
    /\ UNCHANGED <<prog, max_retries, client, op, cattempts, gattempts,
                   conn_from, collection, args, ret, gret, cret, heartbeats,
                   sent, step, trace, exit_status, cli>>

----------------------------------------------------------------------------
(* ChromaDBClient.get_or_create_collection, lines 61-79 *)

\* one iteration of the loop up to the sleep: lines 64-74
GocAttempt ==
    /\ pc = "goc"
    /\ IF GocMayTry(gattempts)
       THEN \E outcome \in IF client = "None" THEN {"attr_err"}
                           ELSE {"gcall_ok", "gcall_fail"} :
              /\ log' = Append(log, outcome)
              /\ IF outcome = "gcall_ok"
                 THEN /\ GocFinish("return", CollectionOf(client))
                      /\ UNCHANGED gattempts
                 ELSE /\ gattempts' = gattempts + 1
                      /\ IF GocExhausted(gattempts + 1)
                         THEN GocFinish("raise", IF outcome = "attr_err"
                                                 THEN "AttributeError"
                                                 ELSE "RemoteError")
                         ELSE /\ pc' = "goc_sleep"
                              /\ UNCHANGED <<op, ret, gret, collection, step,
                                             trace, exit_status>>
       ELSE /\ GocFinish("return", "None")
            /\ UNCHANGED <<log, gattempts>>
    /\ UNCHANGED <<prog, max_retries, client, cattempts, conn_from, args, cret,
                   clog, heartbeats, sent, cli>>

\* line 75: time.sleep(self.retry_delay)
GocSleep ==
    /\ pc = "goc_sleep"
    /\ log' = Append(log, "gsleep")
    /\ pc' = "goc_check"
    /\ UNCHANGED <<prog, max_retries, client, op, cattempts, gattempts,
                   conn_from, collection, args, ret, gret, cret, clog,
                   heartbeats, sent, step, trace, exit_status, cli>>

\* lines 77-79: every second failed attempt, self._connect()
GocCheck ==
    /\ pc = "goc_check"
    /\ IF ShouldReconnect(gattempts)
       THEN /\ log' = Append(log, "reconnect")
            /\ pc' = "connect"
            /\ conn_from' = "goc"
            /\ cattempts' = 0
            /\ clog' = << >>
            /\ cret' = "pending"
       ELSE /\ pc' = "goc"
            /\ UNCHANGED <<log, conn_from, cattempts, clog, cret>>
    /\ UNCHANGED <<prog, max_retries, client, op, gattempts, collection, args,
                   ret, gret, heartbeats, sent, step, trace, exit_status, cli>>

----------------------------------------------------------------------------
(* ChromaDBClient.add_documents, lines 92-106, after get_or_create_collection *)

AddBody ==
    /\ pc = "add_body"
    /\ \E ids \in AddIds(args.ids, args.documents) :
         IF collection = "None"
         THEN \* None.add: AttributeError, caught at line 104 and raised again
              /\ log' = Append(log, "attr_err")
              /\ Finish("raise", "AttributeError")
              /\ UNCHANGED sent
         ELSE \E outcome \in {"add_ok", "add_fail"} :
                /\ log' = Append(log, outcome)
                /\ sent' = [kind |-> "add", documents |-> args.documents,
                            ids |-> SomeIds(ids), query_texts |-> List(<< >>)]
                /\ IF outcome = "add_ok"
                   THEN Finish("return", "None")
                   ELSE Finish("raise", "AddError")
    /\ UNCHANGED <<prog, max_retries, client, cattempts, gattempts, conn_from,
                   collection, args, gret, cret, clog, heartbeats, cli>>

(* ChromaDBClient.query_collection, lines 119-133, after get_or_create_collection *)

QueryBody ==
    /\ pc = "query_body"
    /\ IF collection = "None"
       THEN /\ log' = Append(log, "attr_err")
            /\ Finish("raise", "AttributeError")
            /\ UNCHANGED sent
       ELSE \E outcome \in {"query_ok", "query_fail"} :
              /\ log' = Append(log, outcome)
              /\ sent' = [kind |-> "query", documents |-> << >>, ids |-> NoneIds,
                          query_texts |-> NormalizeQuery(args.query_texts)]
              /\ IF outcome = "query_ok"
                 THEN Finish("return", "Results")
                 ELSE Finish("raise", "QueryError")
    /\ UNCHANGED <<prog, max_retries, client, cattempts, gattempts, conn_from,
                   collection, args, gret, cret, clog, heartbeats, cli>>

----------------------------------------------------------------------------
(* A caller of ChromaDBClient: any method, any number of times *)

\* entry of a public method: every one starts with get_or_create_collection
StartCall(o, a) ==
    /\ pc = "idle"
    /\ op' = o
    /\ args' = a
    /\ pc' = "goc"
    /\ gattempts' = 0
    /\ cattempts' = 0
    /\ log' = << >>
    /\ clog' = << >>
    /\ heartbeats' = 0
    /\ ret' = Pending(o)
    /\ gret' = NoRet
    /\ cret' = "pending"
    /\ sent' = NoSent
    /\ collection' = "unset"
    /\ UNCHANGED <<prog, max_retries, client, conn_from, step, trace,
                   exit_status, cli>>

\* the arguments a caller passes
DocumentsInputs == SeqsUpTo({1}, MaxDocs)
IdsInputs == {NoneIds} \cup {SomeIds(l) : l \in SeqsUpTo(IdTokens, MaxDocs)}
QueryTextsInputs ==
    {Str(s) : s \in Texts} \cup {List(l) : l \in SeqsUpTo(Texts, MaxQueries)}

CallGetOrCreateCollection ==
    /\ prog = "api"
    /\ StartCall("goc", NoArgs)

CallAddDocuments ==
    /\ prog = "api"
    /\ \E documents \in DocumentsInputs, ids \in IdsInputs :
         StartCall("add", [documents |-> documents, ids |-> ids,
                           query_texts |-> List(<< >>)])

CallQueryCollection ==
    /\ prog = "api"
    /\ \E q \in QueryTextsInputs :
         StartCall("query", [documents |-> << >>, ids |-> NoneIds, query_texts |-> q])

----------------------------------------------------------------------------
(* app/client.py main(), lines 184-237.  step 0 is ChromaDBClient(...), 1 is    *)
(* load_sample_data, 2 the print after it, 3/5/7 the three queries, 4/6/8 the  *)
(* loops printing their results, 9 the end of main.                            *)

SampleDocuments == [i \in 1..NumSampleDocs |-> i]
SampleIds == [i \in 1..NumSampleDocs |-> i]          \* f"doc_{i+1}"

MainQueryTexts(s) ==
    CASE s = 3 -> Str(1)              \* "Give me some facts about space"
      [] s = 5 -> Str(2)              \* "Tell me about superheroes"
      [] s = 7 -> List(<<1, 2>>)      \* ["Tell me about animals", "Tell me about movies"]

\* lines 136-181, 193
MainLoadSampleData ==
    /\ prog = "main"
    /\ step = 1
    /\ StartCall("add", [documents |-> SampleDocuments, ids |-> SomeIds(SampleIds),
                         query_texts |-> List(<< >>)])

\* lines 197-201, 208-213, 220-224
MainQuery ==
    /\ prog = "main"
    /\ step \in {3, 5, 7}
    /\ StartCall("query", [documents |-> << >>, ids |-> NoneIds,
                           query_texts |-> MainQueryTexts(step)])

\* lines 195, 203-205, 215-217, 226-233: results["documents"][i] raises when the
\* service's answer has no such entry
MainPrint ==
    /\ prog = "main"
    /\ pc = "idle"
    /\ step \in {2, 4, 6, 8}
    /\ \E kind \in IF step = 2 THEN {"return"} ELSE {"return", "raise"} :
         MainStatement(kind)
    /\ UNCHANGED <<prog, max_retries, client, op, cattempts, gattempts,
                   conn_from, collection, args, ret, gret, cret, log, clog,
                   heartbeats, sent, cli>>

\* main returns: the process ends with status 0
MainExit ==
    /\ prog = "main"
    /\ pc = "idle"
    /\ step = 9
    /\ pc' = "exited"
    /\ exit_status' = "0"
    /\ UNCHANGED <<prog, max_retries, client, op, cattempts, gattempts,
                   conn_from, collection, args, ret, gret, cret, log, clog,
                   heartbeats, sent, step, trace, cli>>

----------------------------------------------------------------------------
(* local_client.py main(), lines 133-158 *)

SeqRange(s) == {s[i] : i \in 1..Len(s)}

\* sys.exit(status), or the end of main (status 0), or an uncaught exception
\* (the interpreter ends with status 1)
CliExit(status) ==
    /\ pc' = "exited"
    /\ exit_status' = status

\* main, line 145: if not collections (then sys.exit(1))
NoCollections(collections) == collections = << >>

\* main, line 153: if not collection_info (then sys.exit(1))
NoInfoNever(info) == FALSE
NoInfo(info) == info = "empty"

\* main, line 149
ChooseCollection(wanted, collections) ==
    IF wanted \in SeqRange(collections) THEN wanted ELSE collections[1]

\* what client.list_collections() can return
CollectionsInputs == SeqsUpTo(Names, MaxColls)

\* connect_to_chroma, lines 9-24
CliConnect ==
    /\ pc = "cli_connect"
    /\ \E outcome \in {"ctor_fail", "hb_fail", "hb_ok"} :
         /\ log' = Append(log, ConnectEvent(outcome))
         /\ heartbeats' = IF outcome = "ctor_fail" THEN heartbeats ELSE heartbeats + 1
         /\ IF outcome = "hb_ok"
            THEN /\ client' = "Verified"
                 /\ pc' = "cli_list"
                 /\ UNCHANGED exit_status
            ELSE /\ CliExit("1")
                 /\ UNCHANGED client
    /\ UNCHANGED <<prog, max_retries, op, cattempts, gattempts, conn_from,
                   collection, args, ret, gret, cret, clog, sent, step, trace,
                   cli>>

\* list_collections, lines 27-41, and main, lines 143-149
CliListCollections ==
    /\ pc = "cli_list"
    /\ \/ \* client.list_collections() or collection.name raises: nothing catches it
          /\ log' = Append(log, "list_fail")
          /\ CliExit("1")
          /\ UNCHANGED cli
       \/ \E collections \in CollectionsInputs :
            /\ log' = Append(log, "list_ok")
            /\ IF NoCollections(collections)
               THEN /\ CliExit("1")
                    /\ cli' = [cli EXCEPT !.collections = collections]
               ELSE /\ cli' = [cli EXCEPT !.collections = collections,
                                          !.collection_name =
                                              ChooseCollection(cli.collection, collections)]
                    /\ pc' = "cli_info"
                    /\ UNCHANGED exit_status
    /\ UNCHANGED <<prog, max_retries, client, op, cattempts, gattempts,
                   conn_from, collection, args, ret, gret, cret, clog, heartbeats, sent,
                   step, trace>>

\* get_collection_info, lines 44-66, and main, lines 151-155
CliCollectionInfo ==
    /\ pc = "cli_info"
    /\ \E outcome \in {"get_fail", "count_fail", "peek_fail", "info_ok"},
          count \in 0..MaxCount :
         /\ outcome = "peek_fail" => count > 0
         /\ log' = Append(log, outcome)
         /\ cli' = IF outcome = "info_ok"
                   THEN [cli EXCEPT !.info = "info", !.count = count]
                   ELSE [cli EXCEPT !.info = "empty"]       \* line 66: return {}
         /\ IF NoInfo(cli'.info)
            THEN CliExit("1")
            ELSE /\ pc' = "cli_query"
                 /\ UNCHANGED exit_status
    /\ UNCHANGED <<prog, max_retries, client, op, cattempts, gattempts,
                   conn_from, collection, args, ret, gret, cret, clog,
                   heartbeats, sent, step, trace>>

\* run_basic_query, lines 69-91: query_text goes to collection.query as given;
\* every exception is caught, and main ends after it
CliRunBasicQuery ==
    /\ pc = "cli_query"
    /\ \E outcome \in {"get_fail", "query_fail", "print_fail", "query_ok"} :
         /\ log' = Append(log, outcome)
         /\ sent' = IF outcome = "get_fail" THEN sent
                    ELSE [kind |-> "query", documents |-> << >>, ids |-> NoneIds,
                          query_texts |-> Str(cli.query)]
    /\ CliExit("0")
    /\ UNCHANGED <<prog, max_retries, client, op, cattempts, gattempts,
                   conn_from, collection, args, ret, gret, cret, clog,
                   heartbeats, step, trace, cli>>

----------------------------------------------------------------------------
(* The programs *)

Init ==
    /\ prog \in {"api", "main", "cli"}
    /\ max_retries \in IF prog = "api" THEN 0..MaxRetries ELSE {DefaultMaxRetries}
    /\ client = "None"                                   \* line 36
    /\ op = IF prog = "cli" THEN "idle" ELSE "init"
    /\ pc = IF prog = "cli" THEN "cli_connect" ELSE "connect"   \* line 37
    /\ cattempts = 0
    /\ gattempts = 0
    /\ conn_from = "init"
    /\ collection = "unset"
    /\ args = NoArgs
    /\ ret = Pending(op)
    /\ gret = NoRet
    /\ cret = "pending"
    /\ log = << >>
    /\ clog = << >>
    /\ heartbeats = 0
    /\ sent = NoSent
    /\ step = 0
    /\ trace = << >>
    /\ exit_status = "running"
    /\ \E c \in Names, q \in Texts :
         cli = IF prog = "cli" THEN [NoCli EXCEPT !.collection = c, !.query = q]
               ELSE NoCli

Next ==
    \/ ConnectAttempt
    \/ ConnectSleep
    \/ GocAttempt
    \/ GocSleep
    \/ GocCheck
    \/ AddBody
    \/ QueryBody
    \/ CallGetOrCreateCollection
    \/ CallAddDocuments
    \/ CallQueryCollection
    \/ MainLoadSampleData
    \/ MainQuery
    \/ MainPrint
    \/ MainExit
    \/ CliConnect
    \/ CliListCollections
    \/ CliCollectionInfo
    \/ CliRunBasicQuery

Spec == Init /\ [][Next]_vars

\* A caller that constructs a ChromaDBClient and then calls only
\* get_or_create_collection, any number of times.  The code is single-threaded
\* and sequential, and every remote call and sleep returns: the running method
\* always takes its next step.
GocInit == Init /\ prog = "api"

GocNext ==
    \/ ConnectAttempt
    \/ ConnectSleep
    \/ GocAttempt
    \/ GocSleep
    \/ GocCheck
    \/ CallGetOrCreateCollection

GocSpec == GocInit /\ [][GocNext]_vars /\ WF_vars(GocNext)

TypeOK ==
    /\ prog \in {"api", "main", "cli"}
    /\ max_retries \in 0..(MaxRetries + DefaultMaxRetries)
    /\ client \in {"None", "Unverified", "Verified"}
    /\ op \in {"init", "goc", "add", "query", "idle"}
    /\ cattempts \in 0..max_retries
    /\ gattempts \in 0..max_retries
    /\ exit_status \in {"running", "0", "1"}

----------------------------------------------------------------------------
(* Events of the logs *)

ConnectFailures == {"conn_fail"}
GocCalls == {"gcall_ok", "gcall_fail"}
AddCalls == {"add_ok", "add_fail"}
QueryCalls == {"query_ok", "query_fail"}

Last(s) == s[Len(s)]

\* a run of get_or_create_collection is in progress
InGoc ==
    \/ pc \in {"goc", "goc_sleep", "goc_check"}
    \/ pc \in {"connect", "connect_sleep"} /\ conn_from = "goc"

\* the last get_or_create_collection of a ChromaDBClient has ended
GocEnded == prog # "cli" /\ gret.kind # "pending"

\* the number of the failed get-or-create call logged at position i
FailedAttemptNo(i) == Count(SubSeq(log, 1, i), {"gcall_fail"})

\* the failed call at position i is followed by the sleep and then a reconnection
ReconnectFollows(i) ==
    /\ i + 2 <= Len(log)
    /\ log[i + 1] = "gsleep"
    /\ log[i + 2] = "reconnect"

----------------------------------------------------------------------------
(* C1: when _connect raises ConnectionError it has made exactly max_retries    *)
(* attempts, all failed, and exactly max_retries - 1 sleeps, each between two  *)
(* attempts: its events are attempt, sleep, attempt, ..., attempt, with no     *)
(* sleep after the last attempt.  At any time a sleep follows a failed attempt *)
(* and no more than max_retries attempts are made.                             *)
C1_ConnectRetries ==
    prog # "cli" =>
      /\ \A i \in 1..Len(clog) :
           IF i % 2 = 1
           THEN clog[i] \in ConnectFailures \cup {"hb_ok"}
           ELSE clog[i] = "sleep" /\ clog[i - 1] \in ConnectFailures
      /\ Count(clog, ConnectFailures \cup {"hb_ok"}) <= max_retries
      /\ cret = "raise" =>
           /\ Count(clog, ConnectFailures) = max_retries
           /\ Count(clog, {"sleep"}) = max_retries - 1
           /\ Len(clog) = 2 * max_retries - 1
           /\ Last(clog) \in ConnectFailures

C1_Witness ==
    /\ prog = "api"
    /\ conn_from = "init"
    /\ cret = "raise"
    /\ max_retries = 3
    /\ clog = <<"conn_fail", "sleep", "conn_fail", "sleep", "conn_fail">>
    /\ heartbeats = 3

(* C2: _connect, and so the constructor, either returns with self.client set   *)
(* to a handle whose heartbeat succeeded, or raises ConnectionError after the  *)
(* retries are exhausted; it never returns without a successful heartbeat.     *)
C2_ConnectOutcome ==
    prog # "cli" =>
      /\ cret = "return" => client = "Verified" /\ clog # << >> /\ Last(clog) = "hb_ok"
      /\ cret = "raise" => cattempts >= max_retries
      /\ ret.op = "init" /\ ret.kind = "return" => client = "Verified"
      /\ ret.op = "init" /\ ret.kind = "raise" => ret.val = "ConnectionError"

(* C3: one get_or_create_collection issues the remote call at most max_retries *)
(* times; it returns the collection of the first successful call; it raises    *)
(* only the error of the failed remote call and only after max_retries         *)
(* attempts; it never returns without a collection handle.                     *)
C3_GocBoundedRetry ==
    prog # "cli" /\ ret.op # "init" =>
      /\ Count(log, GocCalls) <= max_retries
      /\ gret.kind = "return" =>
           /\ gret.val \in {"CollV", "CollU"}
           /\ Count(log, {"gcall_ok"}) = 1
      /\ gret.kind = "raise" =>
           /\ gret.val = "RemoteError"
           /\ Count(log, {"gcall_fail"}) = max_retries

(* C4, as stated: in a finished get_or_create_collection, a failed attempt is  *)
(* followed by the sleep and a reconnection exactly when its number is even.   *)
C4_ReconnectEverySecond ==
    GocEnded =>
      \A i \in 1..Len(log) :
        log[i] = "gcall_fail" => (ReconnectFollows(i) <=> FailedAttemptNo(i) % 2 = 0)

(* C4, amended: in a finished get_or_create_collection, a failed attempt is    *)
(* followed by the sleep and then a reconnection exactly when its number is    *)
(* even and it is not the last allowed attempt (number < max_retries); every   *)
(* reconnection comes right after the sleep that follows a failed attempt, so  *)
(* before the next remote call.                                                *)
C4_ReconnectEverySecondButLast ==
    GocEnded =>
      /\ \A i \in 1..Len(log) :
           log[i] = "gcall_fail" =>
             (ReconnectFollows(i) <=>
                FailedAttemptNo(i) % 2 = 0 /\ FailedAttemptNo(i) < max_retries)
      /\ \A j \in 1..Len(log) :
           log[j] = "reconnect" =>
             j >= 3 /\ log[j - 1] = "gsleep" /\ log[j - 2] = "gcall_fail"

C4_Witness ==
    /\ prog = "api"
    /\ max_retries = 4
    /\ gret = [kind |-> "raise", val |-> "RemoteError"]
    /\ Count(log, {"reconnect"}) = 1
    /\ Count(log, {"gcall_fail"}) = 4

(* C5: add_documents with ids=None sends to collection.add as many generated   *)
(* ids as there are documents, pairwise distinct; ids given by the caller are  *)
(* sent unchanged.                                                             *)
C5_AddIds ==
    prog # "cli" /\ sent.kind = "add" =>
      /\ ~sent.ids.none
      /\ sent.documents = args.documents
      /\ IF args.ids.none
         THEN /\ Len(sent.ids.l) = Len(args.documents)
              /\ Distinct(sent.ids.l)
         ELSE sent.ids.l = args.ids.l

C5_Witness ==
    /\ sent.kind = "add"
    /\ args.ids.none
    /\ Len(args.documents) = MaxDocs
    /\ Len(sent.ids.l) = MaxDocs

(* C6, as stated: every query sent to a remote collection carries query_texts  *)
(* as a list of strings.                                                       *)
C6_EveryQueryIsAList ==
    sent.kind = "query" => sent.query_texts.t = "list"

(* C6, amended: ChromaDBClient.query_collection sends a lone string s as [s]   *)
(* and a list unchanged; run_basic_query of local_client.py sends its query    *)
(* string to collection.query as the bare string it was given.                 *)
C6_QueryCollectionWraps ==
    sent.kind = "query" =>
      IF prog = "cli"
      THEN sent.query_texts.t = "str" /\ sent.query_texts.s = cli.query
      ELSE /\ sent.query_texts.t = "list"
           /\ args.query_texts.t = "str" => sent.query_texts.l = <<args.query_texts.s>>
           /\ args.query_texts.t = "list" => sent.query_texts.l = args.query_texts.l

C6_Witness ==
    /\ prog = "api"
    /\ sent.kind = "query"
    /\ args.query_texts.t = "str"
    /\ sent.query_texts.l = <<args.query_texts.s>>

(* C7: in local_client.py, when the heartbeat fails, or the service lists no   *)
(* collections, or the collection-info lookup fails, the process has exit      *)
(* status 1 and no query was sent.                                             *)
CliFailed ==
    \/ Len(log) >= 1 /\ log[1] \in ConnectFailures
    \/ Len(log) >= 2 /\ log[2] = "list_ok" /\ cli.collections = << >>
    \/ Len(log) >= 3 /\ log[3] \in {"get_fail", "count_fail", "peek_fail"}

C7_CliExitsOnFailure ==
    prog = "cli" =>
      /\ CliFailed =>
           /\ exit_status = "1"
           /\ sent.kind = "none"
           /\ Len(log) <= 3
      /\ exit_status = "1" => sent.kind = "none"

C7_Witness ==
    /\ prog = "cli"
    /\ exit_status = "1"
    /\ Len(log) = 3
    /\ log[3] = "peek_fail"

(* C8: add_documents and query_collection issue the remote add or query at     *)
(* most once per call, a failure of it is raised to the caller as that error,  *)
(* and in main() no statement runs after the first one that failed.            *)
C8_FailureAborts ==
    prog # "cli" =>
      /\ Count(log, AddCalls) + Count(log, QueryCalls) <= 1
      /\ log # << >> /\ Last(log) = "add_fail" =>
           ret = [op |-> "add", kind |-> "raise", val |-> "AddError"]
      /\ log # << >> /\ Last(log) = "query_fail" =>
           ret = [op |-> "query", kind |-> "raise", val |-> "QueryError"]
      /\ prog = "main" =>
           /\ \A i \in 1..(Len(trace) - 1) : trace[i].ok
           /\ \A i \in 1..Len(trace) : trace[i].step = i - 1
           /\ (trace # << >> /\ ~Last(trace).ok) => exit_status = "1" /\ pc = "exited"

C8_Witness ==
    /\ prog = "main"
    /\ exit_status = "1"
    /\ Len(trace) = 6
    /\ Last(log) = "query_fail"

(* C9: every remote collection operation (get-or-create, add, query) is sent   *)
(* through a client handle that is not None and that passed a heartbeat after  *)
(* it was created.                                                             *)
C9_OperationsAfterHeartbeat ==
    prog # "cli" /\ log # << >> =>
      /\ Last(log) \in GocCalls => client = "Verified"
      /\ Last(log) \in AddCalls \cup QueryCalls => collection = "CollV"

(* C10: one get_or_create_collection terminates, having issued at most         *)
(* max_retries get-or-create calls and at most                                 *)
(* floor((max_retries - 1) / 2) * max_retries heartbeats.                      *)
GocCallBounds ==
    prog # "cli" /\ ret.op # "init" =>
      /\ Count(log, GocCalls) <= max_retries
      /\ heartbeats <= ((max_retries - 1) \div 2) * max_retries

C10_GocTerminatesBounded ==
    /\ []GocCallBounds
    /\ InGoc ~> ~InGoc

C10_Witness ==
    /\ prog = "api"
    /\ max_retries = 3
    /\ gret.kind = "return"
    /\ Count(log, GocCalls) = 3
    /\ heartbeats = 3

====
